---- MODULE Spec2Model ----
(***************************************************************************)
(* A model of the feed handler: the order book (book_builder.rs), the      *)
(* recovery manager (recovery.rs) and the decoder (decoder.rs).            *)
(*                                                                         *)
(* Nine specifications share the module:                                   *)
(*   Spec         an OrderBook driven by apply_message                     *)
(*   SpecEvents   the same book, never given a Snapshot                    *)
(*   SpecSnapshot a book with one order id, small snapshots                *)
(*   SpecRecovery a RecoveryManager driven by apply_snapshot, apply_update *)
(*                and reset                                                *)
(*   SpecStream   Decoder::decode_stream run over a byte buffer            *)
(*   SpecStreamFair  the same, the loop always running its next iteration  *)
(*   SpecGap      a GapDetector driven by process and reset                *)
(*   SpecCodec    a message written as the tests and the generator write   *)
(*                it, then given to Decoder::decode                        *)
(*   SpecStats    the two latency windows of a FeedStats                   *)
(***************************************************************************)
EXTENDS Integers, Sequences, FiniteSets, TLC

VARIABLES
    book,               \* OrderBook {bids, asks, orders} (in SpecRecovery: RecoveryManager.book)
    last_snapshot_seq,  \* RecoveryManager.last_snapshot_seq : Option<u32>
    op,                 \* the most recent call: "new", the message type, or the manager's method
    ret,                \* what the most recent call returned: "Ok" or the error
    ret_seq,            \* the u32 inside the Ok(u32) of apply_snapshot
    steps,              \* number of calls made so far
    snap_applied,       \* history: sequence of the latest successful apply_snapshot since new()/reset()
    snap_ever,          \* history: some apply_snapshot has succeeded since new()
    buffer,             \* decode_stream: the input bytes
    offset,             \* decode_stream: local `offset`
    count,              \* decode_stream: local `count`
    delivered,          \* decode_stream: offsets of the messages the callback was invoked on
    pc,                 \* decode_stream: "idle", "loop" or "done"
    result,             \* decode_stream: the value returned
    detector,           \* GapDetector {last_sequence, gaps, total_gap_count}
    processed,          \* history: the numbers given to process since new()/reset()
    reset_dropped,      \* history: how many intervals the latest reset() cleared
    sent,               \* codec: the field values given to the encoder
    wire,               \* codec: the bytes the encoder wrote
    decoded,            \* codec: what Decoder::decode returned for wire
    stats,              \* FeedStats {decode_latencies, book_update_latencies}
    recorded            \* history: every sample given to each of the two recorders since new()

vars == <<book, last_snapshot_seq, op, ret, ret_seq, steps, snap_applied, snap_ever,
          buffer, offset, count, delivered, pc, result, detector, processed,
          reset_dropped, sent, wire, decoded, stats, recorded>>

recoveryVars == <<last_snapshot_seq, ret_seq, snap_applied, snap_ever>>
streamVars == <<buffer, offset, count, delivered, pc, result>>
gapVars == <<detector, processed, reset_dropped>>
codecVars == <<sent, wire, decoded>>
statsVars == <<stats, recorded>>

-----------------------------------------------------------------------------
(* Bounds of the model *)

MaxId == 2          \* order ids are 1..MaxId
MaxPrice == 2       \* prices are 1..MaxPrice
U32_MAX == 3        \* u32::MAX, scaled down: quantities are the integers 0..U32_MAX
MaxLevels == 2      \* a snapshot carries at most MaxLevels levels (bids + asks)
MaxSteps == 2       \* calls made on one book
MaxSeq == 2         \* sequence numbers are 0..MaxSeq
MaxProcess == 4     \* calls made on one GapDetector

(* Program constants *)

HEADER_SIZE == 8

\* Option<T>: None, or Some(x)
None == <<>>
Some(x) == <<x>>
Unwrap(o) == o[1]
NoErr == [kind |-> "None"]
NoResult == [ok |-> FALSE, count |-> 0, err |-> NoErr]

-----------------------------------------------------------------------------
(* u32 arithmetic *)

saturating_sub(a, b) == IF a >= b THEN a - b ELSE 0

saturating_add(a, b) == IF a + b > U32_MAX THEN U32_MAX ELSE a + b

wrapping_add(a, b) == (a + b) % (U32_MAX + 1)

(* BTreeMap / HashMap as functions on their key set *)

EmptyMap == [k \in {} |-> 0]

MapInsert(m, k, v) == [x \in (DOMAIN m) \cup {k} |-> IF x = k THEN v ELSE m[x]]

MapRemove(m, k) == [x \in (DOMAIN m) \ {k} |-> m[x]]

-----------------------------------------------------------------------------
(* book_builder.rs *)

Side_from_u8(v) == IF v = 0 THEN Some("Bid") ELSE IF v = 1 THEN Some("Ask") ELSE None

OrderBook_new == [bids |-> EmptyMap, asks |-> EmptyMap, orders |-> EmptyMap]

level_map(b, side) == IF side = "Bid" THEN b.bids ELSE b.asks

with_level_map(b, side, m) ==
    IF side = "Bid" THEN [b EXCEPT !.bids = m] ELSE [b EXCEPT !.asks = m]

\* if let Some(q) = map.get_mut(&price) { *q = q.saturating_sub(qty); if *q == 0 { remove } }
sub_level(m, price, qty) ==
    IF price \in DOMAIN m
    THEN LET q == saturating_sub(m[price], qty)
         IN  IF q = 0 THEN MapRemove(m, price) ELSE MapInsert(m, price, q)
    ELSE m

remove_from_level(b, order) ==
    with_level_map(b, order.side,
                   sub_level(level_map(b, order.side), order.price, order.quantity))

Outcome(b, r) == [book |-> b, ret |-> r]

\* Mutant of apply_AddOrder: the level is credited before the duplicate check.
apply_AddOrder_LevelFirst(b, m) ==
    IF Side_from_u8(m.side) = None THEN {Outcome(b, "InvalidSide")}
    ELSE
      LET side  == Unwrap(Side_from_u8(m.side))
          lm    == level_map(b, side)
          cur   == IF m.price \in DOMAIN lm THEN lm[m.price] ELSE 0
          b1    == with_level_map(b, side,
                        MapInsert(lm, m.price, wrapping_add(cur, m.quantity)))
          order == [order_id |-> m.order_id, price |-> m.price,
                    quantity |-> m.quantity, side |-> side]
      IN  IF m.order_id \in DOMAIN b.orders THEN {Outcome(b1, "DuplicateOrder")}
          ELSE {Outcome([b1 EXCEPT !.orders = MapInsert(@, m.order_id, order)], "Ok")}

\* The `+=` on the level is a plain u32 addition: on overflow a build with
\* overflow checks panics (before anything was written), one without wraps.
apply_AddOrder(b, m) ==
    IF Side_from_u8(m.side) = None THEN {Outcome(b, "InvalidSide")}
    ELSE IF m.order_id \in DOMAIN b.orders THEN {Outcome(b, "DuplicateOrder")}
    ELSE
      LET side  == Unwrap(Side_from_u8(m.side))
          lm    == level_map(b, side)
          cur   == IF m.price \in DOMAIN lm THEN lm[m.price] ELSE 0
          order == [order_id |-> m.order_id, price |-> m.price,
                    quantity |-> m.quantity, side |-> side]
          done  == [with_level_map(b, side,
                        MapInsert(lm, m.price, wrapping_add(cur, m.quantity)))
                      EXCEPT !.orders = MapInsert(@, m.order_id, order)]
      IN  IF cur + m.quantity > U32_MAX
          THEN {Outcome(b, "Panic"), Outcome(done, "Ok")}
          ELSE {Outcome(done, "Ok")}

\* Mutant of apply_ModifyOrder: a modify to zero also drops the order record.
apply_ModifyOrder_ZeroDeletes(b, m) ==
    IF m.order_id \notin DOMAIN b.orders THEN {Outcome(b, "OrderNotFound")}
    ELSE
      LET order == b.orders[m.order_id]
          lm    == level_map(b, order.side)
          lm2   == IF order.price \in DOMAIN lm
                   THEN LET q == saturating_add(
                                     saturating_sub(lm[order.price], order.quantity),
                                     m.new_quantity)
                        IN  IF q = 0 THEN MapRemove(lm, order.price)
                                     ELSE MapInsert(lm, order.price, q)
                   ELSE lm
          b2    == with_level_map(b, order.side, lm2)
      IN  {Outcome(IF m.new_quantity = 0
                   THEN [b2 EXCEPT !.orders = MapRemove(@, m.order_id)]
                   ELSE [b2 EXCEPT !.orders[m.order_id].quantity = m.new_quantity],
                   "Ok")}

apply_ModifyOrder(b, m) ==
    IF m.order_id \notin DOMAIN b.orders THEN {Outcome(b, "OrderNotFound")}
    ELSE
      LET order == b.orders[m.order_id]
          lm    == level_map(b, order.side)
          lm2   == IF order.price \in DOMAIN lm
                   THEN LET q == saturating_add(
                                     saturating_sub(lm[order.price], order.quantity),
                                     m.new_quantity)
                        IN  IF q = 0 THEN MapRemove(lm, order.price)
                                     ELSE MapInsert(lm, order.price, q)
                   ELSE lm
      IN  {Outcome([with_level_map(b, order.side, lm2)
                      EXCEPT !.orders[m.order_id].quantity = m.new_quantity], "Ok")}

\* Mutant of apply_DeleteOrder: the level is kept when it reaches zero.
apply_DeleteOrder_KeepsEmptyLevel(b, m) ==
    IF m.order_id \notin DOMAIN b.orders THEN {Outcome(b, "OrderNotFound")}
    ELSE
      LET order == b.orders[m.order_id]
          b1    == [b EXCEPT !.orders = MapRemove(@, m.order_id)]
          lm    == level_map(b1, order.side)
      IN  {Outcome(with_level_map(b1, order.side,
                       IF order.price \in DOMAIN lm
                       THEN MapInsert(lm, order.price,
                                      saturating_sub(lm[order.price], order.quantity))
                       ELSE lm),
                   "Ok")}

apply_DeleteOrder(b, m) ==
    IF m.order_id \notin DOMAIN b.orders THEN {Outcome(b, "OrderNotFound")}
    ELSE
      LET order == b.orders[m.order_id]
          b1    == [b EXCEPT !.orders = MapRemove(@, m.order_id)]
      IN  {Outcome(with_level_map(b1, order.side,
                       sub_level(level_map(b1, order.side), order.price, order.quantity)),
                   "Ok")}

\* One of the two halves of a Trade: "Remove or reduce buyer/seller order".
trade_order(b, id, qty) ==
    IF id \notin DOMAIN b.orders THEN b
    ELSE
      LET order == b.orders[id]
          nq    == saturating_sub(order.quantity, qty)
      IN  IF nq = 0
          THEN \* the record is removed after its quantity was overwritten
               LET removed == [order EXCEPT !.quantity = nq]
               IN  remove_from_level([b EXCEPT !.orders = MapRemove(@, id)], removed)
          ELSE LET b1 == [b EXCEPT !.orders[id].quantity = nq]
               IN  with_level_map(b1, order.side,
                       sub_level(level_map(b1, order.side), order.price, qty))

\* Mutant of apply_Trade: a trade between two unknown orders is rejected.
apply_Trade_RejectsUnknown(b, m) ==
    IF m.buyer_order_id \notin DOMAIN b.orders /\ m.seller_order_id \notin DOMAIN b.orders
    THEN {Outcome(b, "OrderNotFound")}
    ELSE {Outcome(trade_order(trade_order(b, m.buyer_order_id, m.quantity),
                              m.seller_order_id, m.quantity), "Ok")}

apply_Trade(b, m) ==
    {Outcome(trade_order(trade_order(b, m.buyer_order_id, m.quantity),
                         m.seller_order_id, m.quantity), "Ok")}

\* for level in levels { if qty > 0 { map.insert(price, qty) } }
RECURSIVE install_levels(_, _)
install_levels(m, levels) ==
    IF levels = <<>> THEN m
    ELSE LET l == Head(levels)
         IN  install_levels(IF l.quantity > 0 THEN MapInsert(m, l.price, l.quantity) ELSE m,
                            Tail(levels))

\* Mutant of apply_Snapshot: self.orders.clear() is left out.
apply_Snapshot_KeepOrders(b, m) ==
    {Outcome([bids   |-> install_levels(EmptyMap, m.bid_levels),
              asks   |-> install_levels(EmptyMap, m.ask_levels),
              orders |-> b.orders], "Ok")}

apply_Snapshot(b, m) ==
    {Outcome([bids   |-> install_levels(EmptyMap, m.bid_levels),
              asks   |-> install_levels(EmptyMap, m.ask_levels),
              orders |-> EmptyMap], "Ok")}

apply_message(b, m) ==
    CASE m.type = "AddOrder"    -> apply_AddOrder(b, m)
      [] m.type = "ModifyOrder" -> apply_ModifyOrder(b, m)
      [] m.type = "DeleteOrder" -> apply_DeleteOrder(b, m)
      [] m.type = "Trade"       -> apply_Trade(b, m)
      [] m.type = "Snapshot"    -> apply_Snapshot(b, m)

-----------------------------------------------------------------------------
(* gap_detector.rs.  Sequence numbers are u32: the integers 0..U32_MAX. *)

wrapping_sub(a, b) == (a - b + U32_MAX + 1) % (U32_MAX + 1)

GapDetector_new == [last_sequence |-> None, gaps |-> <<>>, total_gap_count |-> 0]

\* Mutant of process: `last + 1` without the wrap.
process_NoWrap(d, seq_num) ==
    IF d.last_sequence = None
    THEN [d EXCEPT !.last_sequence = Some(seq_num)]
    ELSE
      LET last          == Unwrap(d.last_sequence)
          expected_next == last + 1
          gap_size      == wrapping_sub(seq_num, expected_next)
      IN  IF seq_num # expected_next
          THEN [last_sequence   |-> Some(seq_num),
                gaps            |-> Append(d.gaps, <<expected_next, wrapping_sub(seq_num, 1)>>),
                total_gap_count |-> wrapping_add(d.total_gap_count, gap_size)]
          ELSE [d EXCEPT !.last_sequence = Some(seq_num)]

\* Mutant of process: a late arrival closes the recorded gaps that hold it.
process_FillsGap(d, seq_num) ==
    LET NotHolding(g) == ~(seq_num >= g[1] /\ seq_num <= g[2])
        kept          == SelectSeq(d.gaps, NotHolding)
    IN
    IF d.last_sequence = None
    THEN [d EXCEPT !.last_sequence = Some(seq_num)]
    ELSE
      LET last          == Unwrap(d.last_sequence)
          expected_next == wrapping_add(last, 1)
          gap_size      == wrapping_sub(seq_num, expected_next)
      IN  IF seq_num # expected_next
          THEN [last_sequence   |-> Some(seq_num),
                gaps            |-> Append(kept, <<expected_next, wrapping_sub(seq_num, 1)>>),
                total_gap_count |-> wrapping_add(d.total_gap_count, gap_size)]
          ELSE [d EXCEPT !.last_sequence = Some(seq_num), !.gaps = kept]

process(d, seq_num) ==
    IF d.last_sequence = None
    THEN [d EXCEPT !.last_sequence = Some(seq_num)]
    ELSE
      LET last          == Unwrap(d.last_sequence)
          expected_next == wrapping_add(last, 1)
          gap_size      == wrapping_sub(seq_num, expected_next)
      IN  IF seq_num # expected_next
          THEN [last_sequence   |-> Some(seq_num),
                gaps            |-> Append(d.gaps, <<expected_next, wrapping_sub(seq_num, 1)>>),
                total_gap_count |-> wrapping_add(d.total_gap_count, gap_size)]
          ELSE [d EXCEPT !.last_sequence = Some(seq_num)]

gaps(d) == d.gaps

total_gaps(d) == d.total_gap_count

gap_count(d) == Len(d.gaps)

\* Mutant of reset: last_sequence is kept.
GapDetector_reset_KeepsLast(d) ==
    [last_sequence |-> d.last_sequence, gaps |-> <<>>, total_gap_count |-> 0]

GapDetector_reset(d) == [last_sequence |-> None, gaps |-> <<>>, total_gap_count |-> 0]

\* Mutant of is_in_gap: `seq_num < end` for `seq_num <= end`.
is_in_gap_EndExcluded(d, seq_num) ==
    \E i \in DOMAIN d.gaps : seq_num >= d.gaps[i][1] /\ seq_num < d.gaps[i][2]

is_in_gap(d, seq_num) ==
    \E i \in DOMAIN d.gaps : seq_num >= d.gaps[i][1] /\ seq_num <= d.gaps[i][2]

-----------------------------------------------------------------------------
(* Inputs.  A universe u names the ids, prices, quantities, side bytes and
   sequence numbers messages are drawn from, and the most levels (bids + asks)
   a snapshot carries. *)

Quantities == {0, 1, U32_MAX}
Seqs == 0..MaxSeq

\* apply_message never reads the sequence number: one value is enough
BookU == [ids |-> 1..MaxId, prices |-> 1..MaxPrice, qtys |-> Quantities,
          sides |-> {0, 1, 2}, seqs |-> {0}, levels |-> 1]

\* SpecSnapshot: one order id, snapshots of at most one level in the calls
\* made; SnapU is what a snapshot applied to the books so reached may carry
SnapCallU == [ids |-> {1}, prices |-> 1..MaxPrice, qtys |-> {0, 1},
              sides |-> {0, 1, 2}, seqs |-> {0}, levels |-> 1]

SnapU == [SnapCallU EXCEPT !.qtys = Quantities, !.levels = MaxLevels]

\* the manager gates on the sequence number alone: a small book under it
RecoveryU == [ids |-> {1}, prices |-> {1}, qtys |-> {1, U32_MAX},
              sides |-> {0, 2}, seqs |-> Seqs, levels |-> MaxLevels - 1]

AddOrderMsgs(u) ==
    [type : {"AddOrder"}, sequence : u.seqs, order_id : u.ids, price : u.prices,
     quantity : u.qtys, side : u.sides]

ModifyOrderMsgs(u) ==
    [type : {"ModifyOrder"}, sequence : u.seqs, order_id : u.ids, new_quantity : u.qtys]

DeleteOrderMsgs(u) ==
    [type : {"DeleteOrder"}, sequence : u.seqs, order_id : u.ids]

TradeMsgs(u) ==
    [type : {"Trade"}, sequence : u.seqs, buyer_order_id : u.ids,
     seller_order_id : u.ids, quantity : u.qtys]

LevelSeqs(u, n) == [1..n -> [price : u.prices, quantity : u.qtys]]

\* num_bids + num_asks <= u.levels
LevelCounts(u) == {c \in (0..u.levels) \X (0..u.levels) : c[1] + c[2] <= u.levels}

SnapshotMsgs(u) ==
    UNION {
      {[type |-> "Snapshot", sequence |-> s, bid_levels |-> bl, ask_levels |-> al] :
          s \in u.seqs, bl \in LevelSeqs(u, c[1]), al \in LevelSeqs(u, c[2])} :
      c \in LevelCounts(u) }

BookMsgs(u) ==
    AddOrderMsgs(u) \cup ModifyOrderMsgs(u) \cup DeleteOrderMsgs(u)
        \cup TradeMsgs(u) \cup SnapshotMsgs(u)

-----------------------------------------------------------------------------
(* Spec: an OrderBook and its caller *)

Init ==
    /\ book = OrderBook_new
    /\ last_snapshot_seq = None
    /\ op = "new"
    /\ ret = "NoCall"
    /\ ret_seq = None
    /\ steps = 0
    /\ snap_applied = None
    /\ snap_ever = FALSE
    /\ buffer = <<>>
    /\ offset = 0
    /\ count = 0
    /\ delivered = <<>>
    /\ pc = "idle"
    /\ result = NoResult
    /\ detector = GapDetector_new
    /\ processed = <<>>
    /\ reset_dropped = 0
    /\ sent = [type |-> "None"]
    /\ wire = <<>>
    /\ decoded = NoResult
    /\ stats = [decode_latencies |-> <<>>, book_update_latencies |-> <<>>]
    /\ recorded = [decode |-> <<>>, book_update |-> <<>>]

\* A caller makes at most MaxSteps calls, and none after a panic
CanCall == steps < MaxSteps /\ ret # "Panic"

\* One call book.apply_message(&msg)
Apply(m) ==
    /\ \E o \in apply_message(book, m) :
          /\ book' = o.book
          /\ ret' = o.ret
    /\ op' = m.type
    /\ steps' = steps + 1
    /\ UNCHANGED <<recoveryVars, streamVars, gapVars, codecVars, statsVars>>

ApplyAddOrder ==
    /\ CanCall
    /\ \E m \in AddOrderMsgs(BookU) : Apply(m)

ApplyModifyOrder ==
    /\ CanCall
    /\ \E m \in ModifyOrderMsgs(BookU) : Apply(m)

ApplyDeleteOrder ==
    /\ CanCall
    /\ \E m \in DeleteOrderMsgs(BookU) : Apply(m)

ApplyTrade ==
    /\ CanCall
    /\ \E m \in TradeMsgs(BookU) : Apply(m)

ApplySnapshot ==
    /\ CanCall
    /\ \E m \in SnapshotMsgs(BookU) : Apply(m)

NextEvents ==
    \/ ApplyAddOrder
    \/ ApplyModifyOrder
    \/ ApplyDeleteOrder
    \/ ApplyTrade

Next ==
    \/ NextEvents
    \/ ApplySnapshot

Spec == Init /\ [][Next]_vars

\* An OrderBook with one order id, given messages of the small universe
SnapAddOrder ==
    /\ CanCall
    /\ \E m \in AddOrderMsgs(SnapCallU) : Apply(m)

SnapModifyOrder ==
    /\ CanCall
    /\ \E m \in ModifyOrderMsgs(SnapCallU) : Apply(m)

SnapDeleteOrder ==
    /\ CanCall
    /\ \E m \in DeleteOrderMsgs(SnapCallU) : Apply(m)

SnapTrade ==
    /\ CanCall
    /\ \E m \in TradeMsgs(SnapCallU) : Apply(m)

SnapSnapshot ==
    /\ CanCall
    /\ \E m \in SnapshotMsgs(SnapCallU) : Apply(m)

NextSnapshot ==
    \/ SnapAddOrder
    \/ SnapModifyOrder
    \/ SnapDeleteOrder
    \/ SnapTrade
    \/ SnapSnapshot

SpecSnapshot == Init /\ [][NextSnapshot]_vars

\* An OrderBook that is never given a Snapshot
SpecEvents == Init /\ [][NextEvents]_vars

-----------------------------------------------------------------------------
(* Claims about the order book *)

Sides == {"Bid", "Ask"}

ErrorRets == {"InvalidSide", "DuplicateOrder", "OrderNotFound"}

RECURSIVE SumQuantity(_, _)
SumQuantity(orders, ids) ==
    IF ids = {} THEN 0
    ELSE LET id == CHOOSE x \in ids : TRUE
         IN  orders[id].quantity + SumQuantity(orders, ids \ {id})

OrdersAt(b, side, price) ==
    {id \in DOMAIN b.orders : b.orders[id].side = side /\ b.orders[id].price = price}

\* C1 (I2): in a book that was never given a Snapshot, after every
\* apply_message call, every level present in a side map holds the sum of
\* the quantities of the order records with that side and price.  (Stated
\* for the levels whose order quantities sum to at most u32::MAX, which a
\* level can hold.)
C1_LevelEqualsOrderSum ==
    \A side \in Sides : \A p \in DOMAIN level_map(book, side) :
        LET sum == SumQuantity(book.orders, OrdersAt(book, side, p))
        IN  sum <= U32_MAX => level_map(book, side)[p] = sum

\* C2 (I1): after any sequence of apply_message calls every price key of
\* bids and of asks maps to a strictly positive quantity.
C2_LevelsPositive ==
    \A side \in Sides : \A p \in DOMAIN level_map(book, side) :
        level_map(book, side)[p] > 0

Min(a, b) == IF a < b THEN a ELSE b

\* What the claim says a Trade does to the level (side, p): it is reduced by
\* min(qty, q) for each traded order that sits there, and removed at zero.
TradedIds(b, m) == {m.buyer_order_id, m.seller_order_id} \cap DOMAIN b.orders

RECURSIVE SumFill(_, _, _)
SumFill(orders, ids, qty) ==
    IF ids = {} THEN 0
    ELSE LET id == CHOOSE x \in ids : TRUE
         IN  Min(qty, orders[id].quantity) + SumFill(orders, ids \ {id}, qty)

ClaimedLevelAfterTrade(b, m, side, p) ==
    saturating_sub(level_map(b, side)[p],
                   SumFill(b.orders, TradedIds(b, m) \cap OrdersAt(b, side, p), m.quantity))

\* C3: a Trade sets each traded order's quantity to max(q - qty, 0), removes
\* the order at 0, and in the partial-fill and in the full-fill case reduces
\* the order's level by min(qty, q), removing the level at zero.  (Stated
\* for trades whose buyer and seller are different orders.)
C3_TradeReducesOrderAndLevel ==
    \A m \in TradeMsgs(BookU) : \A o \in apply_message(book, m) :
      m.buyer_order_id # m.seller_order_id =>
        /\ \A id \in TradedIds(book, m) :
              LET nq == saturating_sub(book.orders[id].quantity, m.quantity)
              IN  IF nq = 0 THEN id \notin DOMAIN o.book.orders
                  ELSE /\ id \in DOMAIN o.book.orders
                       /\ o.book.orders[id].quantity = nq
        /\ \A id \in TradedIds(book, m) :
              LET side == book.orders[id].side
                  p    == book.orders[id].price
              IN  p \in DOMAIN level_map(book, side) =>
                    LET want == ClaimedLevelAfterTrade(book, m, side, p)
                    IN  IF want = 0 THEN p \notin DOMAIN level_map(o.book, side)
                        ELSE /\ p \in DOMAIN level_map(o.book, side)
                             /\ level_map(o.book, side)[p] = want

\* C4: whenever apply_message returns an error, bids, asks and orders are
\* exactly what they were before the call.
C4_RejectionLeavesBookUnchanged ==
    \A m \in BookMsgs(BookU) : \A o \in apply_message(book, m) :
        o.ret \in ErrorRets => o.book = book

\* Each kind of rejection has happened on a book that holds orders and levels.
C4_Witness ==
    /\ ret \in ErrorRets
    /\ DOMAIN book.orders # {}
    /\ DOMAIN book.bids # {}

LevelPairs(m) == {<<p, m[p]>> : p \in DOMAIN m}

NonZeroLevels(levels) ==
    {<<levels[i].price, levels[i].quantity>> : i \in {j \in DOMAIN levels : levels[j].quantity > 0}}

\* C5 as stated (I6): after a Snapshot orders is empty and bids / asks hold
\* exactly the snapshot's levels of quantity > 0, price mapped to that quantity.
C5_SnapshotInstallsExactlyNonZero ==
    \A m \in SnapshotMsgs(SnapU) : \A o \in apply_message(book, m) :
        /\ o.ret = "Ok"
        /\ o.book.orders = EmptyMap
        /\ LevelPairs(o.book.bids) = NonZeroLevels(m.bid_levels)
        /\ LevelPairs(o.book.asks) = NonZeroLevels(m.ask_levels)

\* The last level of quantity > 0 that a snapshot side gives for each price
LastNonZeroLevels(levels) ==
    {<<levels[i].price, levels[i].quantity>> :
        i \in {j \in DOMAIN levels :
                  /\ levels[j].quantity > 0
                  /\ \A k \in DOMAIN levels :
                        (levels[k].price = levels[j].price /\ levels[k].quantity > 0) => k <= j}}

\* C5 amended: after a Snapshot, whatever the book was, orders is empty and
\* each side maps every price that has a level of quantity > 0 to the quantity
\* of the last such level of the snapshot; nothing else is in the maps.
C5_SnapshotInstallsLastNonZero ==
    \A m \in SnapshotMsgs(SnapU) : \A o \in apply_message(book, m) :
        /\ o.ret = "Ok"
        /\ o.book.orders = EmptyMap
        /\ LevelPairs(o.book.bids) = LastNonZeroLevels(m.bid_levels)
        /\ LevelPairs(o.book.asks) = LastNonZeroLevels(m.ask_levels)

\* A snapshot was applied to a book that held orders, and it installed a level.
C5_Witness ==
    /\ op = "Snapshot"
    /\ steps >= 2
    /\ book.orders = EmptyMap
    /\ DOMAIN book.bids # {}

-----------------------------------------------------------------------------
(* recovery.rs *)

RecoveryManager_new == [last_snapshot_seq |-> None, book |-> OrderBook_new]

RmOutcome(b, last, r, seq) ==
    [book |-> b, last_snapshot_seq |-> last, ret |-> r, ret_seq |-> seq]

\* Mutant of apply_snapshot: last_snapshot_seq is not recorded.
apply_snapshot_NoRecord(rm, m) ==
    IF m.type = "Snapshot"
    THEN {RmOutcome(o.book, rm.last_snapshot_seq, o.ret,
                    IF o.ret = "Ok" THEN Some(m.sequence) ELSE None) :
             o \in apply_message(rm.book, m)}
    ELSE {RmOutcome(rm.book, rm.last_snapshot_seq, "ExpectedSnapshot", None)}

apply_snapshot(rm, m) ==
    IF m.type = "Snapshot"
    THEN {IF o.ret = "Ok"
          THEN RmOutcome(o.book, Some(m.sequence), "Ok", Some(m.sequence))
          ELSE RmOutcome(o.book, rm.last_snapshot_seq, o.ret, None) :
             o \in apply_message(rm.book, m)}
    ELSE {RmOutcome(rm.book, rm.last_snapshot_seq, "ExpectedSnapshot", None)}

\* Mutant of apply_update: `seq < last_snap` for `seq <= last_snap`.
apply_update_Strict(rm, m) ==
    IF rm.last_snapshot_seq # None /\ m.sequence < Unwrap(rm.last_snapshot_seq)
    THEN {RmOutcome(rm.book, rm.last_snapshot_seq, "StaleUpdate", None)}
    ELSE {RmOutcome(o.book, rm.last_snapshot_seq, o.ret, None) :
             o \in apply_message(rm.book, m)}

\* Mutant of apply_update: updates are refused until a snapshot has arrived.
apply_update_NeedsSnapshot(rm, m) ==
    IF rm.last_snapshot_seq = None \/ m.sequence <= Unwrap(rm.last_snapshot_seq)
    THEN {RmOutcome(rm.book, rm.last_snapshot_seq, "StaleUpdate", None)}
    ELSE {RmOutcome(o.book, rm.last_snapshot_seq, o.ret, None) :
             o \in apply_message(rm.book, m)}

apply_update(rm, m) ==
    IF rm.last_snapshot_seq # None /\ m.sequence <= Unwrap(rm.last_snapshot_seq)
    THEN {RmOutcome(rm.book, rm.last_snapshot_seq, "StaleUpdate", None)}
    ELSE {RmOutcome(o.book, rm.last_snapshot_seq, o.ret, None) :
             o \in apply_message(rm.book, m)}

\* Mutant of reset: the book is replaced, last_snapshot_seq is kept.
reset_KeepSeq(rm) == [last_snapshot_seq |-> rm.last_snapshot_seq, book |-> OrderBook_new]

reset(rm) == [last_snapshot_seq |-> None, book |-> OrderBook_new]

needs_recovery(rm) == rm.last_snapshot_seq = None

-----------------------------------------------------------------------------
(* SpecRecovery: a RecoveryManager and its caller *)

RecoveryMsgs == BookMsgs(RecoveryU)

\* The manager as the model holds it
RM == [last_snapshot_seq |-> last_snapshot_seq, book |-> book]

RmReturn(o, name) ==
    /\ book' = o.book
    /\ last_snapshot_seq' = o.last_snapshot_seq
    /\ ret' = o.ret
    /\ ret_seq' = o.ret_seq
    /\ op' = name
    /\ steps' = steps + 1
    /\ UNCHANGED <<streamVars, gapVars, codecVars, statsVars>>

RmApplySnapshot ==
    /\ steps < MaxSteps + 1
    /\ ret # "Panic"
    /\ \E m \in RecoveryMsgs : \E o \in apply_snapshot(RM, m) :
          /\ RmReturn(o, "apply_snapshot")
          /\ snap_applied' = IF o.ret = "Ok" THEN Some(m.sequence) ELSE snap_applied
          /\ snap_ever' = (snap_ever \/ o.ret = "Ok")

RmApplyUpdate ==
    /\ steps < MaxSteps + 1
    /\ ret # "Panic"
    /\ \E m \in RecoveryMsgs : \E o \in apply_update(RM, m) :
          /\ RmReturn(o, "apply_update")
          /\ UNCHANGED <<snap_applied, snap_ever>>

RmReset ==
    /\ steps < MaxSteps + 1
    /\ ret # "Panic"
    /\ RmReturn(RmOutcome(reset(RM).book, reset(RM).last_snapshot_seq, "Ok", None), "reset")
    /\ snap_applied' = None
    /\ UNCHANGED snap_ever

NextRecovery ==
    \/ RmApplySnapshot
    \/ RmApplyUpdate
    \/ RmReset

SpecRecovery == Init /\ [][NextRecovery]_vars

-----------------------------------------------------------------------------
(* Claims about the recovery manager *)

\* C6 (P8): when the latest successful apply_snapshot (no reset since) had
\* sequence s, every apply_update(u) with u.sequence <= s is rejected as
\* stale and leaves the book and last_snapshot_seq as they were.
C6_StaleUpdateRejected ==
    \A m \in RecoveryMsgs :
        (snap_applied # None /\ m.sequence <= Unwrap(snap_applied)) =>
            \A o \in apply_update(RM, m) :
                /\ o.ret = "StaleUpdate"
                /\ o.book = book
                /\ o.last_snapshot_seq = last_snapshot_seq

\* An update at the snapshot's own sequence number was rejected, the book
\* holding what the snapshot installed.
C6_Witness ==
    /\ op = "apply_update"
    /\ ret = "StaleUpdate"
    /\ snap_applied # None
    /\ DOMAIN book.bids # {}

\* C7: when no snapshot has been applied, or msg.sequence > last_snapshot_seq,
\* apply_update(msg) returns what apply_message(msg) returns on the owned book
\* and leaves the book as apply_message leaves it.
C7_UpdateIsApplyMessage ==
    \A m \in RecoveryMsgs :
        (snap_applied = None \/ (last_snapshot_seq # None /\ m.sequence > Unwrap(last_snapshot_seq))) =>
            {Outcome(o.book, o.ret) : o \in apply_update(RM, m)} = apply_message(book, m)

\* An update newer than the applied snapshot went through and added an order.
C7_Witness ==
    /\ op = "apply_update"
    /\ ret = "Ok"
    /\ snap_applied # None
    /\ DOMAIN book.orders # {}

\* C8: apply_snapshot of a message that is not a Snapshot returns an error
\* and changes neither the book nor last_snapshot_seq; of a Snapshot it
\* applies it to the book, sets last_snapshot_seq to the snapshot's sequence
\* number and returns that number.
C8_ApplySnapshot ==
    \A m \in RecoveryMsgs : \A o \in apply_snapshot(RM, m) :
        IF m.type = "Snapshot"
        THEN /\ o.ret = "Ok"
             /\ o.ret_seq = Some(m.sequence)
             /\ o.last_snapshot_seq = Some(m.sequence)
             /\ Outcome(o.book, "Ok") \in apply_message(book, m)
        ELSE /\ o.ret = "ExpectedSnapshot"
             /\ o.book = book
             /\ o.last_snapshot_seq = last_snapshot_seq

\* A second snapshot replaced the sequence number of an earlier one.
C8_Witness ==
    /\ op = "apply_snapshot"
    /\ ret = "Ok"
    /\ ret_seq = last_snapshot_seq
    /\ steps >= 2
    /\ DOMAIN book.bids # {}

\* C9 as stated: needs_recovery() is true iff no snapshot has ever been
\* applied to the manager.
C9_NeedsRecoveryIffNeverApplied == needs_recovery(RM) <=> ~snap_ever

\* C9 amended: needs_recovery() is true iff no apply_snapshot call has
\* succeeded since new() or the latest reset().
C9_NeedsRecoveryIffNoneSinceReset == needs_recovery(RM) <=> (snap_applied = None)

\* A manager that applied a snapshot was reset, and needs recovery again.
C9_Witness ==
    /\ op = "reset"
    /\ snap_ever
    /\ needs_recovery(RM)

-----------------------------------------------------------------------------
(* protocol.rs: the packed layouts.  mem::size_of of a #[repr(C, packed)]
   struct is the sum of its fields' sizes. *)

AddOrder_SIZE == 42         \* header 8 + 8 + 8 + 4 + 1 + 13
ModifyOrder_SIZE == 22      \* header 8 + 8 + 4 + 2
DeleteOrder_SIZE == 16      \* header 8 + 8
Trade_SIZE == 38            \* header 8 + 8 + 8 + 8 + 4 + 2
SnapshotHeader_SIZE == 16   \* header 8 + 4 + 4
SnapshotLevel_SIZE == 16    \* 8 + 4 + 4

MessageType_from_u8(v) ==
    CASE v = 1 -> Some("AddOrder")
      [] v = 2 -> Some("ModifyOrder")
      [] v = 3 -> Some("DeleteOrder")
      [] v = 4 -> Some("Trade")
      [] v = 5 -> Some("Snapshot")
      [] OTHER -> None

-----------------------------------------------------------------------------
(* decoder.rs.  A buffer is a sequence of bytes; offsets are 0-based as in
   the source, so the byte at offset k is buf[k + 1]. *)

\* LittleEndian::read_u16 / read_u32 and the little-endian load of a packed
\* field: the n bytes from offset off
RECURSIVE read_le(_, _, _)
read_le(buf, off, n) ==
    IF n = 0 THEN 0 ELSE buf[off + 1] + 256 * read_le(buf, off + 1, n - 1)

BufferTooSmall(need, have) == [kind |-> "BufferTooSmall", need |-> need, have |-> have]
InvalidMessageType(tag) == [kind |-> "InvalidMessageType", tag |-> tag]
TruncatedMessage(declared, actual) ==
    [kind |-> "TruncatedMessage", declared |-> declared, actual |-> actual]

NoMsg == [type |-> "None"]
DecodeErr(e) == [ok |-> FALSE, msg |-> NoMsg, consumed |-> 0, err |-> e]
DecodeOk(msg, consumed) == [ok |-> TRUE, msg |-> msg, consumed |-> consumed, err |-> NoErr]

\* The views: a struct laid over the first bytes of the message
view_AddOrder(s) ==
    [type |-> "AddOrder", sequence |-> read_le(s, 3, 4), order_id |-> read_le(s, 8, 8),
     price |-> read_le(s, 16, 8), quantity |-> read_le(s, 24, 4), side |-> s[29]]

view_ModifyOrder(s) ==
    [type |-> "ModifyOrder", sequence |-> read_le(s, 3, 4), order_id |-> read_le(s, 8, 8),
     new_quantity |-> read_le(s, 16, 4)]

view_DeleteOrder(s) ==
    [type |-> "DeleteOrder", sequence |-> read_le(s, 3, 4), order_id |-> read_le(s, 8, 8)]

\* Mutant of view_Trade: the price is laid out before the two order ids.
view_Trade_PriceFirst(s) ==
    [type |-> "Trade", sequence |-> read_le(s, 3, 4), buyer_order_id |-> read_le(s, 16, 8),
     seller_order_id |-> read_le(s, 24, 8), price |-> read_le(s, 8, 8),
     quantity |-> read_le(s, 32, 4)]

view_Trade(s) ==
    [type |-> "Trade", sequence |-> read_le(s, 3, 4), buyer_order_id |-> read_le(s, 8, 8),
     seller_order_id |-> read_le(s, 16, 8), price |-> read_le(s, 24, 8),
     quantity |-> read_le(s, 32, 4)]

\* slice::from_raw_parts(levels_ptr, n): n levels of 16 bytes from offset off
view_levels(s, off, n) ==
    [i \in 1..n |->
        [price    |-> read_le(s, off + SnapshotLevel_SIZE * (i - 1), 8),
         quantity |-> read_le(s, off + SnapshotLevel_SIZE * (i - 1) + 8, 4)]]

\* Mutant of view_Snapshot: the ask levels are taken from where the bids start.
view_Snapshot_AsksAtBids(s) ==
    LET num_bids == read_le(s, 8, 4)
        num_asks == read_le(s, 12, 4)
    IN  [type |-> "Snapshot", sequence |-> read_le(s, 3, 4),
         bid_levels |-> view_levels(s, SnapshotHeader_SIZE, num_bids),
         ask_levels |-> view_levels(s, SnapshotHeader_SIZE, num_asks)]

view_Snapshot(s) ==
    LET num_bids == read_le(s, 8, 4)
        num_asks == read_le(s, 12, 4)
    IN  [type |-> "Snapshot", sequence |-> read_le(s, 3, 4),
         bid_levels |-> view_levels(s, SnapshotHeader_SIZE, num_bids),
         ask_levels |-> view_levels(s, SnapshotHeader_SIZE + SnapshotLevel_SIZE * num_bids,
                                    num_asks)]

\* Mutant of decode_fixed: the size of the struct is consumed, not the length.
decode_fixed_ConsumesSize(msg_slice, size, view) ==
    IF Len(msg_slice) < size
    THEN DecodeErr(BufferTooSmall(size, Len(msg_slice)))
    ELSE DecodeOk(view, size)

decode_fixed(msg_slice, size, view) ==
    IF Len(msg_slice) < size
    THEN DecodeErr(BufferTooSmall(size, Len(msg_slice)))
    ELSE DecodeOk(view, Len(msg_slice))

decode_snapshot(msg_slice) ==
    IF Len(msg_slice) < SnapshotHeader_SIZE
    THEN DecodeErr(BufferTooSmall(SnapshotHeader_SIZE, Len(msg_slice)))
    ELSE LET num_bids == read_le(msg_slice, 8, 4)
             num_asks == read_le(msg_slice, 12, 4)
             expected_size == SnapshotHeader_SIZE + (num_bids + num_asks) * SnapshotLevel_SIZE
         IN  IF Len(msg_slice) < expected_size
             THEN DecodeErr(TruncatedMessage(Len(msg_slice), Len(msg_slice)))
             ELSE DecodeOk(view_Snapshot(msg_slice), Len(msg_slice))

\* Mutant of decode: the declared length is validated before the type tag.
decode_LengthFirst(buf) ==
    IF Len(buf) < HEADER_SIZE
    THEN DecodeErr(BufferTooSmall(HEADER_SIZE, Len(buf)))
    ELSE
      LET msg_type == buf[1]
          length   == read_le(buf, 1, 2)
      IN  IF length < HEADER_SIZE \/ length > Len(buf)
          THEN DecodeErr(TruncatedMessage(length, Len(buf)))
          ELSE IF MessageType_from_u8(msg_type) = None
          THEN DecodeErr(InvalidMessageType(msg_type))
          ELSE
            LET msg_slice == SubSeq(buf, 1, length)
                t == Unwrap(MessageType_from_u8(msg_type))
            IN  CASE t = "AddOrder" ->
                       decode_fixed(msg_slice, AddOrder_SIZE, view_AddOrder(msg_slice))
                  [] t = "ModifyOrder" ->
                       decode_fixed(msg_slice, ModifyOrder_SIZE, view_ModifyOrder(msg_slice))
                  [] t = "DeleteOrder" ->
                       decode_fixed(msg_slice, DeleteOrder_SIZE, view_DeleteOrder(msg_slice))
                  [] t = "Trade" ->
                       decode_fixed(msg_slice, Trade_SIZE, view_Trade(msg_slice))
                  [] t = "Snapshot" -> decode_snapshot(msg_slice)

\* Mutant of decode: TruncatedMessage reports the declared length as `actual`.
decode_ActualIsDeclared(buf) ==
    IF Len(buf) < HEADER_SIZE
    THEN DecodeErr(BufferTooSmall(HEADER_SIZE, Len(buf)))
    ELSE
      LET msg_type == buf[1]
          length   == read_le(buf, 1, 2)
      IN  IF MessageType_from_u8(msg_type) = None
          THEN DecodeErr(InvalidMessageType(msg_type))
          ELSE IF length < HEADER_SIZE \/ length > Len(buf)
          THEN DecodeErr(TruncatedMessage(length, length))
          ELSE
            LET msg_slice == SubSeq(buf, 1, length)
                t == Unwrap(MessageType_from_u8(msg_type))
            IN  CASE t = "AddOrder" ->
                       decode_fixed(msg_slice, AddOrder_SIZE, view_AddOrder(msg_slice))
                  [] t = "ModifyOrder" ->
                       decode_fixed(msg_slice, ModifyOrder_SIZE, view_ModifyOrder(msg_slice))
                  [] t = "DeleteOrder" ->
                       decode_fixed(msg_slice, DeleteOrder_SIZE, view_DeleteOrder(msg_slice))
                  [] t = "Trade" ->
                       decode_fixed(msg_slice, Trade_SIZE, view_Trade(msg_slice))
                  [] t = "Snapshot" -> decode_snapshot(msg_slice)

decode(buf) ==
    IF Len(buf) < HEADER_SIZE
    THEN DecodeErr(BufferTooSmall(HEADER_SIZE, Len(buf)))
    ELSE
      LET msg_type == buf[1]
          length   == read_le(buf, 1, 2)
      IN  IF MessageType_from_u8(msg_type) = None
          THEN DecodeErr(InvalidMessageType(msg_type))
          ELSE IF length < HEADER_SIZE \/ length > Len(buf)
          THEN DecodeErr(TruncatedMessage(length, Len(buf)))
          ELSE
            LET msg_slice == SubSeq(buf, 1, length)
                t == Unwrap(MessageType_from_u8(msg_type))
            IN  CASE t = "AddOrder" ->
                       decode_fixed(msg_slice, AddOrder_SIZE, view_AddOrder(msg_slice))
                  [] t = "ModifyOrder" ->
                       decode_fixed(msg_slice, ModifyOrder_SIZE, view_ModifyOrder(msg_slice))
                  [] t = "DeleteOrder" ->
                       decode_fixed(msg_slice, DeleteOrder_SIZE, view_DeleteOrder(msg_slice))
                  [] t = "Trade" ->
                       decode_fixed(msg_slice, Trade_SIZE, view_Trade(msg_slice))
                  [] t = "Snapshot" -> decode_snapshot(msg_slice)

\* One iteration of the loop of decode_stream, the callback answering `keep`.
\* Gives the locals after it, whether the callback ran, and the value returned
\* when the iteration leaves the loop.
StreamOk(n) == [ok |-> TRUE, count |-> n, err |-> NoErr]
StreamErr(e) == [ok |-> FALSE, count |-> 0, err |-> e]

\* Mutant of decode_stream_iteration: BufferTooSmall is returned like any error.
decode_stream_iteration_TailIsError(buf, off, cnt, keep) ==
    IF ~(off < Len(buf))
    THEN [offset |-> off, count |-> cnt, called |-> FALSE, pc |-> "done", result |-> StreamOk(cnt)]
    ELSE
      LET r == decode(SubSeq(buf, off + 1, Len(buf))) IN
      IF r.ok
      THEN IF ~keep
           THEN [offset |-> off, count |-> cnt, called |-> TRUE, pc |-> "done",
                 result |-> StreamOk(cnt)]
           ELSE [offset |-> off + r.consumed, count |-> cnt + 1, called |-> TRUE,
                 pc |-> "loop", result |-> NoResult]
      ELSE [offset |-> off, count |-> cnt, called |-> FALSE, pc |-> "done",
            result |-> StreamErr(r.err)]

\* Mutant of decode_stream_iteration: `continue` for the `break` after the
\* callback returned false.
decode_stream_iteration_SkipsOnStop(buf, off, cnt, keep) ==
    IF ~(off < Len(buf))
    THEN [offset |-> off, count |-> cnt, called |-> FALSE, pc |-> "done", result |-> StreamOk(cnt)]
    ELSE
      LET r == decode(SubSeq(buf, off + 1, Len(buf))) IN
      IF r.ok
      THEN IF ~keep
           THEN [offset |-> off + r.consumed, count |-> cnt, called |-> TRUE, pc |-> "loop",
                 result |-> NoResult]
           ELSE [offset |-> off + r.consumed, count |-> cnt + 1, called |-> TRUE,
                 pc |-> "loop", result |-> NoResult]
      ELSE IF r.err.kind = "BufferTooSmall"
      THEN [offset |-> off, count |-> cnt, called |-> FALSE, pc |-> "done",
            result |-> StreamOk(cnt)]
      ELSE [offset |-> off, count |-> cnt, called |-> FALSE, pc |-> "done",
            result |-> StreamErr(r.err)]

\* Mutant of decode_stream_iteration: a structural error is retried.
decode_stream_iteration_RetriesOnError(buf, off, cnt, keep) ==
    IF ~(off < Len(buf))
    THEN [offset |-> off, count |-> cnt, called |-> FALSE, pc |-> "done", result |-> StreamOk(cnt)]
    ELSE
      LET r == decode(SubSeq(buf, off + 1, Len(buf))) IN
      IF r.ok
      THEN IF ~keep
           THEN [offset |-> off, count |-> cnt, called |-> TRUE, pc |-> "done",
                 result |-> StreamOk(cnt)]
           ELSE [offset |-> off + r.consumed, count |-> cnt + 1, called |-> TRUE,
                 pc |-> "loop", result |-> NoResult]
      ELSE IF r.err.kind = "BufferTooSmall"
      THEN [offset |-> off, count |-> cnt, called |-> FALSE, pc |-> "done",
            result |-> StreamOk(cnt)]
      ELSE [offset |-> off, count |-> cnt, called |-> FALSE, pc |-> "loop",
            result |-> NoResult]

\* Mutant of decode_stream_iteration: the message the callback stopped on is
\* counted.
decode_stream_iteration_CountsStop(buf, off, cnt, keep) ==
    IF ~(off < Len(buf))
    THEN [offset |-> off, count |-> cnt, called |-> FALSE, pc |-> "done", result |-> StreamOk(cnt)]
    ELSE
      LET r == decode(SubSeq(buf, off + 1, Len(buf))) IN
      IF r.ok
      THEN IF ~keep
           THEN [offset |-> off, count |-> cnt + 1, called |-> TRUE, pc |-> "done",
                 result |-> StreamOk(cnt + 1)]
           ELSE [offset |-> off + r.consumed, count |-> cnt + 1, called |-> TRUE,
                 pc |-> "loop", result |-> NoResult]
      ELSE IF r.err.kind = "BufferTooSmall"
      THEN [offset |-> off, count |-> cnt, called |-> FALSE, pc |-> "done",
            result |-> StreamOk(cnt)]
      ELSE [offset |-> off, count |-> cnt, called |-> FALSE, pc |-> "done",
            result |-> StreamErr(r.err)]

decode_stream_iteration(buf, off, cnt, keep) ==
    IF ~(off < Len(buf))
    THEN [offset |-> off, count |-> cnt, called |-> FALSE, pc |-> "done", result |-> StreamOk(cnt)]
    ELSE
      LET r == decode(SubSeq(buf, off + 1, Len(buf))) IN
      IF r.ok
      THEN IF ~keep
           THEN [offset |-> off, count |-> cnt, called |-> TRUE, pc |-> "done",
                 result |-> StreamOk(cnt)]
           ELSE [offset |-> off + r.consumed, count |-> cnt + 1, called |-> TRUE,
                 pc |-> "loop", result |-> NoResult]
      ELSE IF r.err.kind = "BufferTooSmall"
      THEN [offset |-> off, count |-> cnt, called |-> FALSE, pc |-> "done",
            result |-> StreamOk(cnt)]
      ELSE [offset |-> off, count |-> cnt, called |-> FALSE, pc |-> "done",
            result |-> StreamErr(r.err)]

-----------------------------------------------------------------------------
(* SpecStream: decode_stream over a buffer made of frames *)

MaxFrames == 2      \* frames put into one buffer

Max(a, b) == IF a > b THEN a ELSE b

Zeros(n) == [i \in 1..n |-> 0]

RECURSIVE le_bytes(_, _)
le_bytes(v, n) == IF n = 0 THEN <<>> ELSE <<v % 256>> \o le_bytes(v \div 256, n - 1)

\* The bytes of n snapshot levels, numbered from j: level k has price k and
\* quantity LevelQty(k)
LevelQty(k) == 10 + k

RECURSIVE LevelBytes(_, _)
LevelBytes(j, n) ==
    IF n = 0 THEN <<>>
    ELSE le_bytes(j, 8) \o le_bytes(LevelQty(j), 4) \o Zeros(4) \o LevelBytes(j + 1, n - 1)

\* A frame: the header with its declared length, then (for a Snapshot) the
\* two level counts and the levels, cut or filled with zero bytes to the
\* declared length, and at least a whole header.
Frame(d, seq) ==
    LET head == <<d.tag>> \o le_bytes(d.length, 2) \o le_bytes(seq, 4) \o <<0>>
        body == IF d.tag = 5
                THEN le_bytes(d.num_bids, 4) \o le_bytes(d.num_asks, 4)
                         \o LevelBytes(1, d.num_bids + d.num_asks)
                ELSE <<>>
        all  == head \o body
        size == Max(d.length, HEADER_SIZE)
    IN  IF Len(all) >= size THEN SubSeq(all, 1, size) ELSE all \o Zeros(size - Len(all))

TypeSize(tag) ==
    CASE tag = 1 -> AddOrder_SIZE
      [] tag = 2 -> ModifyOrder_SIZE
      [] tag = 3 -> DeleteOrder_SIZE
      [] tag = 4 -> Trade_SIZE

\* Declared lengths around each limit the decoder tests
FixedFrames ==
    UNION {
      {[tag |-> t, length |-> l, num_bids |-> 0, num_asks |-> 0] :
          l \in {HEADER_SIZE - 1, TypeSize(t) - 1, TypeSize(t), TypeSize(t) + 1}} :
      t \in 1..4 }

SnapshotFrames ==
    UNION {
      {[tag |-> 5, length |-> l, num_bids |-> c[1], num_asks |-> c[2]] :
          l \in {HEADER_SIZE - 1,
                  SnapshotHeader_SIZE + SnapshotLevel_SIZE * (c[1] + c[2]) - 1,
                  SnapshotHeader_SIZE + SnapshotLevel_SIZE * (c[1] + c[2]),
                  SnapshotHeader_SIZE + SnapshotLevel_SIZE * (c[1] + c[2]) + 1}} :
      c \in {<<0, 0>>, <<1, 0>>, <<1, 1>>} }

UnknownFrames ==
    {[tag |-> t, length |-> l, num_bids |-> 0, num_asks |-> 0] :
        t \in {0, 6}, l \in {HEADER_SIZE - 1, HEADER_SIZE, HEADER_SIZE + 1}}

Frames == FixedFrames \cup SnapshotFrames \cup UnknownFrames

RECURSIVE Concat(_, _)
Concat(ds, seq) ==
    IF ds = <<>> THEN <<>> ELSE Frame(Head(ds), seq) \o Concat(Tail(ds), seq + 1)

\* The buffer may end early: `cut` bytes are missing at its end
Cuts == {0, 1, HEADER_SIZE + 1}

Buffers ==
    {LET full == Concat(ds, 1) IN SubSeq(full, 1, Max(Len(full) - cut, 0)) :
        ds \in UNION {[1..k -> Frames] : k \in 0..MaxFrames}, cut \in Cuts}

InitStreamOver(buffers) ==
    /\ book = OrderBook_new
    /\ last_snapshot_seq = None
    /\ op = "new"
    /\ ret = "NoCall"
    /\ ret_seq = None
    /\ steps = 0
    /\ snap_applied = None
    /\ snap_ever = FALSE
    /\ buffer \in buffers
    /\ offset = 0
    /\ count = 0
    /\ delivered = <<>>
    /\ pc = "loop"
    /\ result = NoResult
    /\ detector = GapDetector_new
    /\ processed = <<>>
    /\ reset_dropped = 0
    /\ sent = [type |-> "None"]
    /\ wire = <<>>
    /\ decoded = NoResult
    /\ stats = [decode_latencies |-> <<>>, book_update_latencies |-> <<>>]
    /\ recorded = [decode |-> <<>>, book_update |-> <<>>]

InitStream == InitStreamOver(Buffers)

Iterate(keep) ==
    LET n == decode_stream_iteration(buffer, offset, count, keep) IN
    /\ offset' = n.offset
    /\ count' = n.count
    /\ delivered' = IF n.called THEN Append(delivered, offset) ELSE delivered
    /\ pc' = n.pc
    /\ result' = n.result
    /\ UNCHANGED <<book, op, ret, steps, recoveryVars, buffer, gapVars, codecVars, statsVars>>

Rest == SubSeq(buffer, offset + 1, Len(buffer))

\* while offset < buffer.len() is false
StreamEnd ==
    /\ pc = "loop"
    /\ ~(offset < Len(buffer))
    /\ Iterate(TRUE)

\* Ok((msg, consumed)), the callback returns true
StreamContinue ==
    /\ pc = "loop"
    /\ offset < Len(buffer)
    /\ decode(Rest).ok
    /\ Iterate(TRUE)

\* Ok((msg, consumed)), the callback returns false
StreamStop ==
    /\ pc = "loop"
    /\ offset < Len(buffer)
    /\ decode(Rest).ok
    /\ Iterate(FALSE)

\* Err(e)
StreamFail ==
    /\ pc = "loop"
    /\ offset < Len(buffer)
    /\ ~decode(Rest).ok
    /\ Iterate(TRUE)

NextStream ==
    \/ StreamEnd
    \/ StreamContinue
    \/ StreamStop
    \/ StreamFail

SpecStream == InitStream /\ [][NextStream]_vars

-----------------------------------------------------------------------------
(* Claims about decode_stream *)

\* C10: decode_stream propagates any structural error: whenever decoding at a
\* reached offset fails while at least 8 bytes remain, decode_stream returns
\* that error instead of Ok.
C10_StructuralErrorPropagates ==
    pc = "done" =>
        ((~decode(Rest).ok /\ Len(buffer) - offset >= HEADER_SIZE) =>
            (~result.ok /\ result.err = decode(Rest).err))

\* The offsets of the successive whole messages of buf from offset off on
RECURSIVE WholeMessages(_, _)
WholeMessages(buf, off) ==
    IF off < Len(buf) /\ decode(SubSeq(buf, off + 1, Len(buf))).ok
    THEN <<off>> \o WholeMessages(buf, off + decode(SubSeq(buf, off + 1, Len(buf))).consumed)
    ELSE <<>>

\* C11: when decode_stream has ended with fewer than 8 bytes (or none) left
\* after the last whole message, it has returned Ok(count), not an error, and
\* every message before that tail was delivered to the callback.
C11_ShortTailEndsCleanly ==
    (pc = "done" /\ Len(buffer) - offset < HEADER_SIZE) =>
        /\ result = StreamOk(count)
        /\ count = Len(delivered)
        /\ delivered = WholeMessages(buffer, 0)

\* The stream ended on a tail of 1..7 bytes after at least one message.
C11_Witness ==
    /\ pc = "done"
    /\ Len(buffer) - offset \in 1..(HEADER_SIZE - 1)
    /\ Len(delivered) >= 1
    /\ result.ok

\* The callback has returned false: it was invoked once more than count says
Stopped == Len(delivered) > count

\* C12: once the callback has signalled stop on a message, decode_stream has
\* returned Ok(count) and the callback is invoked on no later message,
\* whatever follows in the buffer.
C12_StopEndsDelivery ==
    /\ [](Stopped => (pc = "done" /\ result = StreamOk(count)))
    /\ [][Stopped => delivered' = delivered]_vars

\* The callback stopped on a message that is followed by a frame of unknown type.
C12_Witness ==
    /\ Stopped
    /\ pc = "done"
    /\ LET next == offset + decode(Rest).consumed
       IN  /\ next < Len(buffer)
           /\ decode(SubSeq(buffer, next + 1, Len(buffer))).err.kind = "InvalidMessageType"

-----------------------------------------------------------------------------
(* Claims about decode, at every offset decode_stream reaches *)

KnownTags == 1..5

\* The length field of the header of buf
Declared(buf) == read_le(buf, 1, 2)

\* C13: decode reports the first failing check, in this order: a buffer
\* shorter than 8 bytes is BufferTooSmall{need: 8, have: len}; else a first
\* byte outside 1..5 is InvalidMessageType(tag) whatever the declared length;
\* only then the declared length is checked against 8 and the buffer length,
\* and only then the per-type size.
C13_ChecksInOrder ==
    LET b == Rest
        r == decode(b)
    IN  IF Len(b) < HEADER_SIZE
        THEN r = DecodeErr(BufferTooSmall(HEADER_SIZE, Len(b)))
        ELSE IF b[1] \notin KnownTags
        THEN r = DecodeErr(InvalidMessageType(b[1]))
        ELSE IF Declared(b) < HEADER_SIZE \/ Declared(b) > Len(b)
        THEN ~r.ok /\ r.err.kind = "TruncatedMessage"
        ELSE \/ r.ok
             \/ r.err.kind = "BufferTooSmall" /\ r.err.have = Declared(b)
                    /\ r.err.need > HEADER_SIZE
             \/ r.err.kind = "TruncatedMessage" /\ b[1] = 5

\* After a delivered message, a frame of unknown type whose declared length
\* is below 8 was reported as InvalidMessageType.
C13_Witness ==
    /\ pc = "done"
    /\ offset > 0
    /\ result.err.kind = "InvalidMessageType"
    /\ Declared(Rest) < HEADER_SIZE

\* C14: for a buffer of at least 8 bytes with a known type tag whose declared
\* length is below 8 or above buffer.len(), decode fails with
\* TruncatedMessage{declared: length, actual: buffer.len()}.
C14_TruncatedMessage ==
    LET b == Rest IN
    (Len(b) >= HEADER_SIZE /\ b[1] \in KnownTags
        /\ (Declared(b) < HEADER_SIZE \/ Declared(b) > Len(b))) =>
            decode(b) = DecodeErr(TruncatedMessage(Declared(b), Len(b)))

\* After a delivered message, a frame declaring more bytes than remain was
\* reported with its declared length and the bytes remaining.
C14_Witness ==
    /\ pc = "done"
    /\ offset > 0
    /\ result.err.kind = "TruncatedMessage"
    /\ result.err.declared > result.err.actual
    /\ result.err.actual = Len(buffer) - offset

\* The sizes the layout assertions of protocol.rs and the spec's table state
DocumentedSize(tag) ==
    CASE tag = 1 -> 46
      [] tag = 2 -> 26
      [] tag = 3 -> 16
      [] tag = 4 -> 30
      [] tag = 5 -> 16

\* C15: for a known type whose declared length is within 8..buffer.len() but
\* below the type's minimum (AddOrder 46, ModifyOrder 26, DeleteOrder 16,
\* Trade 30, Snapshot header 16), decode fails with BufferTooSmall whose need
\* is that minimum; every declared length at or above the minimum is
\* accepted for the four fixed-size types.
C15_DocumentedMinimumSizes ==
    LET b == Rest
        r == decode(b)
    IN  (Len(b) >= HEADER_SIZE /\ b[1] \in KnownTags
            /\ Declared(b) >= HEADER_SIZE /\ Declared(b) <= Len(b)) =>
          IF Declared(b) < DocumentedSize(b[1])
          THEN ~r.ok /\ r.err.kind = "BufferTooSmall" /\ r.err.need = DocumentedSize(b[1])
          ELSE b[1] \in 1..4 => r.ok

\* The level counts of a snapshot whose header lies inside buf
NumBids(buf) == read_le(buf, 8, 4)
NumAsks(buf) == read_le(buf, 12, 4)

SnapshotNeed(buf) == 16 + 16 * (NumBids(buf) + NumAsks(buf))

\* The level found at byte offset off of buf
LevelAt(buf, off) == [price |-> read_le(buf, off, 8), quantity |-> read_le(buf, off + 8, 4)]

\* The slices of a decoded snapshot: num_bids entries from offset 16, the
\* num_asks entries right behind them, all inside the first `length` bytes.
SlicesAsClaimed(buf, msg) ==
    /\ Len(msg.bid_levels) = NumBids(buf)
    /\ Len(msg.ask_levels) = NumAsks(buf)
    /\ \A i \in 1..NumBids(buf) : msg.bid_levels[i] = LevelAt(buf, 16 + 16 * (i - 1))
    /\ \A i \in 1..NumAsks(buf) :
          msg.ask_levels[i] = LevelAt(buf, 16 + 16 * NumBids(buf) + 16 * (i - 1))
    /\ 16 + 16 * (NumBids(buf) + NumAsks(buf)) <= Declared(buf)

\* C16 as stated: a Snapshot (with a declared length within 8..buffer.len())
\* decodes only if the declared length is at least 16 + 16*(num_bids +
\* num_asks) and otherwise fails with TruncatedMessage; on success the
\* slices are as claimed.
C16_SnapshotTruncatedOtherwise ==
    LET b == Rest
        r == decode(b)
    IN  (Len(b) >= HEADER_SIZE /\ b[1] = 5
            /\ Declared(b) >= HEADER_SIZE /\ Declared(b) <= Len(b)) =>
          IF Declared(b) >= 16 /\ Declared(b) >= SnapshotNeed(b)
          THEN r.ok /\ SlicesAsClaimed(b, r.msg)
          ELSE ~r.ok /\ r.err.kind = "TruncatedMessage"

\* C16 amended: a declared length within 8..15 fails with
\* BufferTooSmall{need: 16, have: length}; from 16 on, decode succeeds iff
\* the declared length is at least 16 + 16*(num_bids + num_asks) and
\* otherwise fails with TruncatedMessage; on success the slices are as claimed.
C16_SnapshotHeaderThenLevels ==
    LET b == Rest
        r == decode(b)
    IN  (Len(b) >= HEADER_SIZE /\ b[1] = 5
            /\ Declared(b) >= HEADER_SIZE /\ Declared(b) <= Len(b)) =>
          IF Declared(b) < 16
          THEN r = DecodeErr(BufferTooSmall(16, Declared(b)))
          ELSE IF Declared(b) >= SnapshotNeed(b)
          THEN r.ok /\ SlicesAsClaimed(b, r.msg)
          ELSE ~r.ok /\ r.err.kind = "TruncatedMessage"

\* A snapshot with one bid and one ask level is about to be delivered, after
\* an earlier message: its bid is level 1 of the frame, its ask level 2.
C16_Witness ==
    /\ pc = "loop"
    /\ offset > 0
    /\ decode(Rest).ok
    /\ decode(Rest).msg.type = "Snapshot"
    /\ decode(Rest).msg.bid_levels = <<[price |-> 1, quantity |-> LevelQty(1)]>>
    /\ decode(Rest).msg.ask_levels = <<[price |-> 2, quantity |-> LevelQty(2)]>>

\* C17: whenever decode succeeds, bytes_consumed is the declared length (so
\* 8 <= bytes_consumed <= buffer.len()), also when that is more than the
\* type's size; the view's message type is the one of the tag byte and its
\* sequence() is the little-endian u32 at offset 3, here the number the
\* frame was built with: frames are numbered from 1.
C17_ConsumedIsDeclaredLength ==
    LET b == Rest
        r == decode(b)
    IN  (Len(b) > 0 /\ r.ok) =>
          /\ r.consumed = Declared(b)
          /\ r.consumed >= HEADER_SIZE /\ r.consumed <= Len(b)
          /\ Some(r.msg.type) = MessageType_from_u8(b[1])
          /\ r.msg.sequence = read_le(b, 3, 4)
          /\ pc = "loop" => r.msg.sequence = count + 1

\* A second frame with one byte of slack behind its struct was delivered.
C17_Witness ==
    /\ count = 2
    /\ offset = Len(buffer)
    /\ \E t \in 1..4 : decode(SubSeq(buffer, delivered[2] + 1, Len(buffer))).consumed = TypeSize(t) + 1
                          /\ buffer[delivered[2] + 1] = t

-----------------------------------------------------------------------------
(* SpecGap: a GapDetector and its caller *)

SeqNums == 0..U32_MAX

GapProcess ==
    /\ steps < MaxProcess
    /\ \E seq_num \in SeqNums :
          /\ detector' = process(detector, seq_num)
          /\ processed' = Append(processed, seq_num)
    /\ op' = "process"
    /\ steps' = steps + 1
    /\ UNCHANGED <<book, ret, recoveryVars, streamVars, reset_dropped, codecVars, statsVars>>

GapReset ==
    /\ steps < MaxProcess
    /\ detector' = GapDetector_reset(detector)
    /\ processed' = <<>>
    /\ reset_dropped' = gap_count(detector)
    /\ op' = "reset"
    /\ steps' = steps + 1
    /\ UNCHANGED <<book, ret, recoveryVars, streamVars, codecVars, statsVars>>

NextGap ==
    \/ GapProcess
    \/ GapReset

SpecGap == Init /\ [][NextGap]_vars

-----------------------------------------------------------------------------
(* Claims about the gap detector *)

\* 2^32, at the width of the model
Modulus == U32_MAX + 1

\* C18: process(seq) on a detector that has processed nothing records
\* nothing; otherwise, with expected = last + 1 (mod 2^32), seq = expected
\* records nothing and seq # expected appends exactly the interval
\* [expected, seq - 1] (mod 2^32) to gaps() and adds seq - expected
\* (mod 2^32) to total_gaps(); in all cases last becomes seq.
C18_ProcessRecordsGap ==
    \A seq \in SeqNums :
        LET d == process(detector, seq) IN
        /\ d.last_sequence = Some(seq)
        /\ IF detector.last_sequence = None
           THEN gaps(d) = gaps(detector) /\ total_gaps(d) = total_gaps(detector)
           ELSE LET expected == (Unwrap(detector.last_sequence) + 1) % Modulus
                IN  IF seq = expected
                    THEN gaps(d) = gaps(detector) /\ total_gaps(d) = total_gaps(detector)
                    ELSE /\ gaps(d) = Append(gaps(detector),
                                             <<expected, (seq + Modulus - 1) % Modulus>>)
                         /\ total_gaps(d) =
                               (total_gaps(detector) + ((seq + Modulus - expected) % Modulus))
                                   % Modulus

\* After a gap was recorded, u32::MAX was followed by 0 and nothing more
\* was recorded.
C18_Witness ==
    /\ op = "process"
    /\ Len(processed) >= 3
    /\ processed[Len(processed)] = 0
    /\ processed[Len(processed) - 1] = U32_MAX
    /\ gap_count(detector) = 1
    /\ total_gaps(detector) >= 1

\* The series processed so far is strictly increasing
Increasing(seq) == \A i, j \in DOMAIN seq : i < j => seq[i] < seq[j]

Range(seq) == {seq[i] : i \in DOMAIN seq}

RECURSIVE SumIntervals(_)
SumIntervals(gs) ==
    IF gs = <<>> THEN 0 ELSE (Head(gs)[2] - Head(gs)[1] + 1) + SumIntervals(Tail(gs))

InRecordedInterval(d, s) == \E i \in DOMAIN d.gaps : s \in (d.gaps[i][1])..(d.gaps[i][2])

\* The numbers between the first and the last processed that were left out
Skipped(seq) ==
    IF seq = <<>> THEN {}
    ELSE {s \in SeqNums : seq[1] < s /\ s < seq[Len(seq)] /\ s \notin Range(seq)}

\* C19 (P7): for a strictly increasing series fed to process, the sum of
\* end - start + 1 over gaps() equals total_gaps(), and is_in_gap(s) holds
\* iff s lies in a recorded interval: it is false for every number that was
\* processed and true for every number that was skipped.
C19_GapsOfIncreasingSeries ==
    Increasing(processed) =>
        /\ SumIntervals(gaps(detector)) = total_gaps(detector)
        /\ \A s \in SeqNums :
              /\ is_in_gap(detector, s) <=> InRecordedInterval(detector, s)
              /\ s \in Range(processed) => ~is_in_gap(detector, s)
              /\ s \in Skipped(processed) => is_in_gap(detector, s)

\* Three increasing numbers were processed and one between them was skipped.
C19_Witness ==
    /\ op = "process"
    /\ Increasing(processed)
    /\ Len(processed) >= 3
    /\ Skipped(processed) # {}

\* C20: reset() clears all state: gaps() is empty, total_gaps() is 0 and the
\* last-seen number is unset, so the next process(seq) records no gap for
\* any seq, as on a freshly created detector.
C20_ResetClearsAll ==
    LET d == GapDetector_reset(detector) IN
    /\ gaps(d) = <<>>
    /\ total_gaps(d) = 0
    /\ d.last_sequence = None
    /\ \A seq \in SeqNums :
          /\ gaps(process(d, seq)) = <<>>
          /\ total_gaps(process(d, seq)) = 0
          /\ process(d, seq) = process(GapDetector_new, seq)

\* A detector that had recorded a gap was reset.
C20_Witness ==
    /\ op = "reset"
    /\ reset_dropped >= 1
    /\ detector = GapDetector_new

-----------------------------------------------------------------------------
(* Claims about the single events of the order book *)

OtherSide(side) == IF side = "Bid" THEN "Ask" ELSE "Bid"

\* The aggregate at (side, price), 0 when the level is absent
LevelOr0(b, side, price) ==
    IF price \in DOMAIN level_map(b, side) THEN level_map(b, side)[price] ELSE 0

\* The side map with the level at price set to q, the level absent when q = 0
LevelSetTo(b, side, price, q) ==
    IF q = 0 THEN MapRemove(level_map(b, side), price)
    ELSE MapInsert(level_map(b, side), price, q)

C24_DeleteSubtractsQuantity ==
    \A m \in DeleteOrderMsgs(BookU) : \A o \in apply_message(book, m) :
        IF m.order_id \notin DOMAIN book.orders
        THEN o.ret = "OrderNotFound"
        ELSE LET order == book.orders[m.order_id]
                 q     == saturating_sub(LevelOr0(book, order.side, order.price),
                                         order.quantity)
             IN  /\ o.ret = "Ok"
                 /\ o.book.orders = MapRemove(book.orders, m.order_id)
                 /\ level_map(o.book, order.side) =
                       LevelSetTo(book, order.side, order.price, q)
                 /\ level_map(o.book, OtherSide(order.side)) =
                       level_map(book, OtherSide(order.side))

\* An order was added and deleted again: its record and its level are gone.
C24_Witness ==
    /\ op = "DeleteOrder"
    /\ ret = "Ok"
    /\ steps = 2
    /\ book = OrderBook_new

\* The ids of a Trade that refer to a present order
PresentIds(b, m) == {m.buyer_order_id, m.seller_order_id} \cap DOMAIN b.orders

\* C25: apply_message on a Trade always returns Ok; when neither id refers
\* to a present order the book is unchanged, and when only one does only
\* that order and its level are affected.
C25_TradeNeverFails ==
    \A m \in TradeMsgs(BookU) : \A o \in apply_message(book, m) :
        /\ o.ret = "Ok"
        /\ PresentIds(book, m) = {} => o.book = book
        /\ \A id \in PresentIds(book, m) :
              PresentIds(book, m) = {id} =>
                LET order == book.orders[id] IN
                /\ \A x \in DOMAIN book.orders \ {id} :
                      x \in DOMAIN o.book.orders /\ o.book.orders[x] = book.orders[x]
                /\ DOMAIN o.book.orders \subseteq DOMAIN book.orders
                /\ level_map(o.book, OtherSide(order.side)) =
                      level_map(book, OtherSide(order.side))
                /\ \A p \in (DOMAIN level_map(book, order.side)
                               \cup DOMAIN level_map(o.book, order.side)) \ {order.price} :
                      /\ p \in DOMAIN level_map(book, order.side)
                      /\ p \in DOMAIN level_map(o.book, order.side)
                      /\ level_map(o.book, order.side)[p] = level_map(book, order.side)[p]

\* A trade naming one present order partially filled it: the order remains.
C25_Witness ==
    /\ op = "Trade"
    /\ ret = "Ok"
    /\ steps = 2
    /\ \E id \in DOMAIN book.orders :
          book.orders[id].quantity > 0 /\ book.orders[id].quantity < U32_MAX

-----------------------------------------------------------------------------
(* book_builder.rs: the queries *)

MaxDepth == 3

RECURSIVE iter(_)
\* BTreeMap::iter: the (key, value) pairs in ascending key order
iter(map) ==
    IF DOMAIN map = {} THEN <<>>
    ELSE LET k == CHOOSE k \in DOMAIN map : \A j \in DOMAIN map : k <= j
         IN  <<<<k, map[k]>>>> \o iter(MapRemove(map, k))

\* Iterator::rev
rev(s) == [i \in 1..Len(s) |-> s[Len(s) + 1 - i]]

\* Iterator::take(n)
take(s, n) == IF n >= Len(s) THEN s ELSE SubSeq(s, 1, n)

\* Iterator::next on a fresh iterator
next(s) == IF s = <<>> THEN None ELSE Some(s[1])

\* Mutant of best_bid: the bids are not reversed.
best_bid_Unreversed(b) == next(iter(b.bids))

best_bid(b) == next(rev(iter(b.bids)))

best_ask(b) == next(iter(b.asks))

\* Mutant of spread: a locked market has a spread.
spread_LockedIsSome(b) ==
    IF best_bid(b) # None /\ best_ask(b) # None
    THEN LET bid == Unwrap(best_bid(b))[1]
             ask == Unwrap(best_ask(b))[1]
         IN  IF bid <= ask THEN Some(ask - bid) ELSE None
    ELSE None

spread(b) ==
    IF best_bid(b) # None /\ best_ask(b) # None
    THEN LET bid == Unwrap(best_bid(b))[1]
             ask == Unwrap(best_ask(b))[1]
         IN  IF bid < ask THEN Some(ask - bid) ELSE None
    ELSE None

\* Mutant of depth: the bids are taken in ascending order.
depth_BidsAscending(b, n) ==
    [bids |-> take(iter(b.bids), n), asks |-> take(iter(b.asks), n)]

depth(b, n) ==
    [bids |-> take(rev(iter(b.bids)), n), asks |-> take(iter(b.asks), n)]

order_count(b) == Cardinality(DOMAIN b.orders)

bid_levels(b) == Cardinality(DOMAIN b.bids)

ask_levels(b) == Cardinality(DOMAIN b.asks)

-----------------------------------------------------------------------------
(* Claims about the queries *)

\* C26: in every reachable book, best_bid() is None iff bids is empty and
\* otherwise is the maximum price key of bids with that level's quantity;
\* best_ask() is None iff asks is empty and otherwise is the minimum price
\* key of asks with that level's quantity.
C26_BestBidMaxBestAskMin ==
    /\ best_bid(book) = None <=> DOMAIN book.bids = {}
    /\ best_ask(book) = None <=> DOMAIN book.asks = {}
    /\ best_bid(book) # None =>
         LET e == Unwrap(best_bid(book)) IN
         /\ e[1] \in DOMAIN book.bids
         /\ \A p \in DOMAIN book.bids : p <= e[1]
         /\ e[2] = book.bids[e[1]]
    /\ best_ask(book) # None =>
         LET e == Unwrap(best_ask(book)) IN
         /\ e[1] \in DOMAIN book.asks
         /\ \A p \in DOMAIN book.asks : p >= e[1]
         /\ e[2] = book.asks[e[1]]

\* Two bid levels are present and best_bid picks the higher one.
C26_Witness ==
    /\ bid_levels(book) = 2
    /\ best_bid(book) = Some(<<2, book.bids[2]>>)

\* C27: in every reachable book, spread() is Some(best ask price - best bid
\* price) iff both sides are non-empty and best bid < best ask; it is None
\* when a side is empty and when bid >= ask; the subtraction never
\* underflows.
C27_SpreadIffUncrossed ==
    LET both == DOMAIN book.bids # {} /\ DOMAIN book.asks # {}
        bid  == CHOOSE p \in DOMAIN book.bids : \A x \in DOMAIN book.bids : x <= p
        ask  == CHOOSE p \in DOMAIN book.asks : \A x \in DOMAIN book.asks : x >= p
    IN  /\ spread(book) # None <=> (both /\ bid < ask)
        /\ spread(book) # None =>
             Unwrap(spread(book)) = ask - bid /\ Unwrap(spread(book)) >= 0
        /\ ~both => spread(book) = None
        /\ (both /\ bid >= ask) => spread(book) = None

\* A bid below an ask: the spread is their difference.
C27_Witness ==
    /\ bid_levels(book) = 1
    /\ ask_levels(book) = 1
    /\ spread(book) = Some(1)

\* The prices of a depth side are strictly ordered: descending if dir = -1,
\* ascending if dir = 1
StrictlyOrdered(s, dir) ==
    \A i \in 1..(Len(s) - 1) : dir * s[i][1] < dir * s[i + 1][1]

\* The entries of a depth side are the n best levels of map, better meaning
\* a larger dir * price
NBest(s, map, n, dir) ==
    /\ \A i \in 1..Len(s) : s[i][1] \in DOMAIN map /\ s[i][2] = map[s[i][1]]
    /\ {s[i][1] : i \in 1..Len(s)} =
         {p \in DOMAIN map :
            Cardinality({x \in DOMAIN map : dir * x < dir * p}) < n}

\* C28: for every n and every reachable book, depth(n) returns
\* min(n, bid_levels()) bid entries in strictly descending price order and
\* min(n, ask_levels()) ask entries in strictly ascending price order, the n
\* best levels of each side with their quantities, the first bid entry being
\* best_bid and the first ask entry best_ask.
C28_DepthTopLevels ==
    \A n \in 0..MaxDepth :
        LET d == depth(book, n) IN
        /\ Len(d.bids) = Min(n, bid_levels(book))
        /\ Len(d.asks) = Min(n, ask_levels(book))
        /\ StrictlyOrdered(d.bids, -1)
        /\ StrictlyOrdered(d.asks, 1)
        /\ NBest(d.bids, book.bids, n, -1)
        /\ NBest(d.asks, book.asks, n, 1)
        /\ d.bids # <<>> => Some(d.bids[1]) = best_bid(book)
        /\ d.asks # <<>> => Some(d.asks[1]) = best_ask(book)

\* Two bid levels are present and depth(1) returns the better one only.
C28_Witness ==
    /\ bid_levels(book) = 2
    /\ Len(depth(book, 1).bids) = 1
    /\ Len(depth(book, MaxDepth).bids) = 2

\* C29: apply_message never aborts the process: each call returns Ok or Err,
\* also for AddOrders whose quantities at one price and side sum past
\* 2^32 - 1, and no level aggregate computation overflows or wraps.
C29_NoAbortNoWrap ==
    /\ ret # "Panic"
    /\ \A m \in AddOrderMsgs(BookU) : \A o \in apply_message(book, m) :
         /\ o.ret # "Panic"
         /\ (o.ret = "Ok" /\ m.side \in {0, 1}) =>
              LET side == Unwrap(Side_from_u8(m.side)) IN
              level_map(o.book, side)[m.price] >= LevelOr0(book, side, m.price)

-----------------------------------------------------------------------------
(* The encoders of the tests and of the generator, and SpecCodec *)

\* LittleEndian::write_uN(&mut msg[off..off + Len(bytes)], v), bytes = le_bytes(v, N/8)
write_at(msg, off, bytes) ==
    [i \in 1..Len(msg) |->
        IF i > off /\ i <= off + Len(bytes) THEN bytes[i - off] ELSE msg[i]]

\* msg[0] = tag; write_u16(&mut msg[1..3], length); write_u32(&mut msg[3..7], seq)
write_header(msg, tag, length, seq) ==
    write_at(write_at(write_at(msg, 0, <<tag>>), 1, le_bytes(length, 2)), 3, le_bytes(seq, 4))

encode_AddOrder(m) ==
    LET h == write_header(Zeros(46), 1, 46, m.sequence) IN
    write_at(write_at(write_at(write_at(h, 8, le_bytes(m.order_id, 8)),
                               16, le_bytes(m.price, 8)),
                      24, le_bytes(m.quantity, 4)),
             28, <<m.side>>)

encode_ModifyOrder(m) ==
    LET h == write_header(Zeros(26), 2, 26, m.sequence) IN
    write_at(write_at(h, 8, le_bytes(m.order_id, 8)), 16, le_bytes(m.new_quantity, 4))

encode_DeleteOrder(m) ==
    LET h == write_header(Zeros(16), 3, 16, m.sequence) IN
    write_at(h, 8, le_bytes(m.order_id, 8))

encode_Trade(m) ==
    LET h == write_header(Zeros(38), 4, 38, m.sequence) IN
    write_at(write_at(write_at(write_at(h, 8, le_bytes(m.buyer_order_id, 8)),
                               16, le_bytes(m.seller_order_id, 8)),
                      24, le_bytes(m.price, 8)),
             32, le_bytes(m.quantity, 4))

RECURSIVE write_levels(_, _, _)
\* the loops writing the levels: level i of 16 bytes at off + 16 * i, its
\* price at 0 and its quantity at 8
write_levels(msg, off, levels) ==
    IF levels = <<>> THEN msg
    ELSE write_levels(write_at(write_at(msg, off, le_bytes(levels[1].price, 8)),
                               off + 8, le_bytes(levels[1].quantity, 4)),
                      off + 16, Tail(levels))

encode_Snapshot(m) ==
    LET num_bids   == Len(m.bid_levels)
        num_asks   == Len(m.ask_levels)
        total_size == 8 + 8 + (num_bids + num_asks) * 16
        h  == write_header(Zeros(total_size), 5, total_size, m.sequence)
        c  == write_at(write_at(h, 8, le_bytes(num_bids, 4)), 12, le_bytes(num_asks, 4))
        b  == write_levels(c, 16, m.bid_levels)
    IN  write_levels(b, 16 + num_bids * 16, m.ask_levels)

\* Field values whose bytes differ from one another
CodecU == [ids |-> {1, 16909060}, prices |-> {258, 16909060}, qtys |-> {0, 16909060},
           sides |-> {0, 1, 2}, seqs |-> {0, 16909060}, levels |-> MaxLevels]

CodecTradeMsgs ==
    [type : {"Trade"}, sequence : CodecU.seqs, buyer_order_id : CodecU.ids,
     seller_order_id : CodecU.ids, price : CodecU.prices, quantity : CodecU.qtys]

Encode(m, bytes) ==
    /\ op = "new"
    /\ sent' = m
    /\ wire' = bytes
    /\ op' = "encode"
    /\ UNCHANGED <<book, ret, steps, recoveryVars, streamVars, gapVars, decoded, statsVars>>

EncodeAddOrder ==
    /\ op = "new"
    /\ \E m \in AddOrderMsgs(CodecU) : Encode(m, encode_AddOrder(m))

EncodeModifyOrder ==
    /\ op = "new"
    /\ \E m \in ModifyOrderMsgs(CodecU) : Encode(m, encode_ModifyOrder(m))

EncodeDeleteOrder ==
    /\ op = "new"
    /\ \E m \in DeleteOrderMsgs(CodecU) : Encode(m, encode_DeleteOrder(m))

EncodeTrade ==
    /\ op = "new"
    /\ \E m \in CodecTradeMsgs : Encode(m, encode_Trade(m))

EncodeSnapshot ==
    /\ op = "new"
    /\ \E m \in SnapshotMsgs(CodecU) : Encode(m, encode_Snapshot(m))

Decode ==
    /\ op = "encode"
    /\ decoded' = decode(wire)
    /\ op' = "decode"
    /\ UNCHANGED <<book, ret, steps, recoveryVars, streamVars, gapVars, sent, wire, statsVars>>

NextCodec ==
    \/ EncodeAddOrder
    \/ EncodeModifyOrder
    \/ EncodeDeleteOrder
    \/ EncodeTrade
    \/ EncodeSnapshot
    \/ Decode

SpecCodec == Init /\ [][NextCodec]_vars

\* C30: for every message type and every choice of field values, writing
\* the fields little-endian at the documented offsets and decoding the
\* buffer yields a view whose fields equal the original values.
C30_RoundTrip ==
    op = "decode" =>
        /\ decoded.ok
        /\ decoded.msg = sent
        /\ decoded.consumed = Len(wire)

\* A snapshot with a bid level and an ask level of multi-byte values was
\* written and decoded.
C30_Witness ==
    /\ op = "decode"
    /\ decoded.ok
    /\ sent.type = "Snapshot"
    /\ Len(sent.bid_levels) = 1
    /\ Len(sent.ask_levels) = 1
    /\ sent.ask_levels[1] = [price |-> 16909060, quantity |-> 16909060]

-----------------------------------------------------------------------------
(* stats.rs: the latency windows, and SpecStats *)

\* const WINDOW_SIZE: usize = 10000, scaled down
WINDOW_SIZE == 2

MaxRecords == 4

Samples == {0, 1}

\* pop_front is Tail (the deque is non-empty where it is called), push_back
\* is Append
\* Mutant of record_decode_latency: the window is full one sample later.
record_decode_latency_OneMore(s, micros) ==
    LET q == IF Len(s.decode_latencies) > WINDOW_SIZE
             THEN Tail(s.decode_latencies) ELSE s.decode_latencies
    IN  [s EXCEPT !.decode_latencies = Append(q, micros)]

record_decode_latency(s, micros) ==
    LET q == IF Len(s.decode_latencies) >= WINDOW_SIZE
             THEN Tail(s.decode_latencies) ELSE s.decode_latencies
    IN  [s EXCEPT !.decode_latencies = Append(q, micros)]

record_book_update_latency(s, micros) ==
    LET q == IF Len(s.book_update_latencies) >= WINDOW_SIZE
             THEN Tail(s.book_update_latencies) ELSE s.book_update_latencies
    IN  [s EXCEPT !.book_update_latencies = Append(q, micros)]

RecordDecodeLatency ==
    /\ steps < MaxRecords
    /\ \E micros \in Samples :
          /\ stats' = record_decode_latency(stats, micros)
          /\ recorded' = [recorded EXCEPT !.decode = Append(@, micros)]
    /\ op' = "record_decode_latency"
    /\ steps' = steps + 1
    /\ UNCHANGED <<book, ret, recoveryVars, streamVars, gapVars, codecVars>>

RecordBookUpdateLatency ==
    /\ steps < MaxRecords
    /\ \E micros \in Samples :
          /\ stats' = record_book_update_latency(stats, micros)
          /\ recorded' = [recorded EXCEPT !.book_update = Append(@, micros)]
    /\ op' = "record_book_update_latency"
    /\ steps' = steps + 1
    /\ UNCHANGED <<book, ret, recoveryVars, streamVars, gapVars, codecVars>>

NextStats ==
    \/ RecordDecodeLatency
    \/ RecordBookUpdateLatency

SpecStats == Init /\ [][NextStats]_vars

\* The most recent min(Len(s), n) elements of s, in order
MostRecent(s, n) == SubSeq(s, Len(s) - Min(Len(s), n) + 1, Len(s))

\* C31: after any sequence of latency recordings each latency window holds
\* at most WINDOW_SIZE samples, and exactly the most recent
\* min(n, WINDOW_SIZE) samples recorded for its bucket, in arrival order.
C31_WindowHoldsMostRecent ==
    /\ Len(stats.decode_latencies) <= WINDOW_SIZE
    /\ Len(stats.book_update_latencies) <= WINDOW_SIZE
    /\ stats.decode_latencies = MostRecent(recorded.decode, WINDOW_SIZE)
    /\ stats.book_update_latencies = MostRecent(recorded.book_update, WINDOW_SIZE)

\* More samples than the window holds went to the decode bucket and one to
\* the other: the oldest decode sample, a 1, was evicted.
C31_Witness ==
    /\ Len(recorded.decode) = WINDOW_SIZE + 1
    /\ recorded.decode[1] = 1
    /\ stats.decode_latencies = [i \in 1..WINDOW_SIZE |-> 0]
    /\ Len(recorded.book_update) = 1

-----------------------------------------------------------------------------
(* Claims about sequences of book events *)

\* The message may remove the order id: a DeleteOrder of it, a Trade naming
\* it, or a Snapshot
MayRemove(m, id) ==
    \/ m.type = "DeleteOrder" /\ m.order_id = id
    \/ m.type = "Trade" /\ id \in {m.buyer_order_id, m.seller_order_id}
    \/ m.type = "Snapshot"

\* C32: ModifyOrder with new_quantity = 0 on a present order succeeds and
\* leaves the record in orders with quantity 0 (order_count unchanged), the
\* order's level reduced by the old quantity and removed if that makes it
\* zero; a zero-quantity record stays until a DeleteOrder of it, a Trade
\* naming it, or a Snapshot removes it.
C32_ModifyToZeroKeepsRecord ==
    /\ \A m \in ModifyOrderMsgs(BookU) : \A o \in apply_message(book, m) :
         (m.new_quantity = 0 /\ m.order_id \in DOMAIN book.orders) =>
            LET order == book.orders[m.order_id] IN
            /\ o.ret = "Ok"
            /\ o.book.orders = [book.orders EXCEPT ![m.order_id].quantity = 0]
            /\ order_count(o.book) = order_count(book)
            /\ level_map(o.book, order.side) =
                 LevelSetTo(book, order.side, order.price,
                            saturating_sub(LevelOr0(book, order.side, order.price),
                                           order.quantity))
            /\ level_map(o.book, OtherSide(order.side)) =
                 level_map(book, OtherSide(order.side))
    /\ \A id \in DOMAIN book.orders :
         book.orders[id].quantity = 0 =>
            \A m \in BookMsgs(BookU) : \A o \in apply_message(book, m) :
               \/ MayRemove(m, id)
               \/ /\ id \in DOMAIN o.book.orders
                  /\ \/ o.book.orders[id] = book.orders[id]
                     \/ m.type = "ModifyOrder" /\ m.order_id = id

\* An order was modified to zero: its record is still there with quantity 0
\* and its level is gone.
C32_Witness ==
    /\ op = "ModifyOrder"
    /\ ret = "Ok"
    /\ \E id \in DOMAIN book.orders :
          /\ book.orders[id].quantity = 0
          /\ book.orders[id].price \notin DOMAIN level_map(book, book.orders[id].side)

-----------------------------------------------------------------------------
(* Claims about the recovery manager's sequence state *)

\* C33: across apply_snapshot and apply_update calls last_snapshot_seq never
\* decreases: once set to s it only changes to a value >= s, and neither
\* call unsets it.
C33_SnapshotSeqMonotonic ==
    \A m \in RecoveryMsgs : \A o \in apply_snapshot(RM, m) \cup apply_update(RM, m) :
        last_snapshot_seq # None =>
            /\ o.last_snapshot_seq # None
            /\ Unwrap(o.last_snapshot_seq) >= Unwrap(last_snapshot_seq)

-----------------------------------------------------------------------------
(* Claims about the book after sequences of events *)

\* Every order record with quantity > 0 has its price as a key of its side
LiveOrdersHaveLevel(b) ==
    \A id \in DOMAIN b.orders :
        b.orders[id].quantity > 0 =>
            b.orders[id].price \in DOMAIN level_map(b, b.orders[id].side)

EventMsgs(u) ==
    AddOrderMsgs(u) \cup ModifyOrderMsgs(u) \cup DeleteOrderMsgs(u) \cup TradeMsgs(u)

\* C34: starting from an empty book, after any sequence of AddOrder,
\* ModifyOrder, DeleteOrder and Trade messages every order record with
\* quantity > 0 has its price present as a key in its side's level map.
C34_LiveOrdersHaveLevel ==
    /\ LiveOrdersHaveLevel(book)
    /\ \A m \in EventMsgs(BookU) : \A o \in apply_message(book, m) :
          LiveOrdersHaveLevel(o.book)

\* C35: the recovery manager records every snapshot that reaches its book:
\* whenever apply_snapshot or apply_update installs a Snapshot with sequence
\* s, last_snapshot_seq = Some(s) and needs_recovery() is false afterwards,
\* and a call that installs no snapshot leaves last_snapshot_seq alone.
C35_EverySnapshotRecorded ==
    \A m \in RecoveryMsgs : \A o \in apply_snapshot(RM, m) \cup apply_update(RM, m) :
        IF m.type = "Snapshot" /\ o.ret = "Ok"
        THEN /\ o.last_snapshot_seq = Some(m.sequence)
             /\ ~needs_recovery([last_snapshot_seq |-> o.last_snapshot_seq,
                                 book |-> o.book])
        ELSE o.last_snapshot_seq = last_snapshot_seq

-----------------------------------------------------------------------------
(* Claims about gaps across the wrap and late arrivals *)

\* C36: for two consecutively processed numbers a then b with b # a + 1
\* (mod 2^32), is_in_gap(s) is true for every s of a+1 .. b-1 taken modulo
\* 2^32, also when that range crosses the wrap from 2^32 - 1 to 0.
C36_SkippedNumbersAreInGap ==
    \A b \in SeqNums :
        detector.last_sequence # None =>
            LET a        == Unwrap(detector.last_sequence)
                d        == process(detector, b)
                gap_size == (b + Modulus - ((a + 1) % Modulus)) % Modulus
            IN  \A k \in 1..gap_size : is_in_gap(d, (a + k) % Modulus)

\* C37: the gap list is append-only between resets: process never removes
\* or alters a recorded interval and never decreases their number;
\* processing a number that lies inside a recorded gap does not remove it
\* from the gap, and is_in_gap stays true for it.
C37_GapsAppendOnly ==
    \A seq \in SeqNums :
        LET d == process(detector, seq) IN
        /\ gap_count(d) >= gap_count(detector)
        /\ SubSeq(gaps(d), 1, gap_count(detector)) = gaps(detector)
        /\ \A s \in SeqNums : is_in_gap(detector, s) => is_in_gap(d, s)

\* A number inside the first recorded gap arrived late: the gap is still
\* recorded and still holds it.
C37_Witness ==
    /\ op = "process"
    /\ gap_count(detector) >= 2
    /\ processed[Len(processed)] >= gaps(detector)[1][1]
    /\ processed[Len(processed)] <= gaps(detector)[1][2]
    /\ is_in_gap(detector, processed[Len(processed)])

-----------------------------------------------------------------------------
(* Claims about the order and the number of the messages delivered *)

\* The declared length of the message at offset off of the buffer
DeclaredAt(off) == read_le(buffer, off + 1, 2)

RECURSIVE SumDeclared(_)
\* The sum of the declared lengths of the first k messages delivered
SumDeclared(k) ==
    IF k = 0 THEN 0 ELSE SumDeclared(k - 1) + DeclaredAt(delivered[k])

\* C38: decode_stream delivers messages in buffer order, message k starting
\* at the sum of the declared lengths of messages 1..k-1; the offset never
\* exceeds buffer.len(); the Ok value returned is the number of messages on
\* which the callback returned continue, the message on which it signalled
\* stop not being counted.
C38_DeliveredInOrderAndCounted ==
    /\ \A k \in 1..Len(delivered) : delivered[k] = SumDeclared(k - 1)
    /\ \A j, k \in 1..Len(delivered) : j < k => delivered[j] < delivered[k]
    /\ offset <= Len(buffer)
    /\ offset = SumDeclared(count)
    /\ count \in {Len(delivered) - 1, Len(delivered)}
    /\ count < Len(delivered) => pc = "done"
    /\ (pc = "done" /\ result.ok) => result.count = count

\* Two messages were delivered and the callback stopped on the second: one
\* is counted.
C38_Witness ==
    /\ pc = "done"
    /\ Len(delivered) = 2
    /\ delivered[2] > 0
    /\ result = StreamOk(1)

\* Frames of one fixed-size type, of a snapshot with one level and of an
\* unknown type, with declared lengths around each limit the decoder tests
FairFrames ==
    {d \in Frames : \/ d.tag = 3
                     \/ (d.tag = 5 /\ d.num_bids = 1 /\ d.num_asks = 0)
                     \/ (d.tag = 0 /\ d.length = HEADER_SIZE)}

FairBuffers ==
    {LET full == Concat(ds, 1) IN SubSeq(full, 1, Max(Len(full) - cut, 0)) :
        ds \in UNION {[1..k -> FairFrames] : k \in 0..MaxFrames}, cut \in Cuts}

\* decode_stream is sequential code: while the loop has an iteration to run
\* it runs it
SpecStreamFair ==
    InitStreamOver(FairBuffers) /\ [][NextStream]_vars /\ WF_vars(NextStream)

\* C39: decode_stream terminates on every finite buffer and every callback:
\* each iteration either leaves the loop or advances the offset by the
\* declared length of a decoded message, which is at least 8, so the
\* callback is invoked at most buffer.len() / 8 times.
C39_StreamTerminates ==
    /\ <>(pc = "done")
    /\ [][pc' = "loop" => offset' >= offset + HEADER_SIZE]_vars
    /\ [](Len(delivered) <= Len(buffer) \div HEADER_SIZE)

\* The loop ran over two messages, the callback continuing on both, and
\* ended at the end of the buffer.
C39_Witness ==
    /\ pc = "done"
    /\ count = 2
    /\ offset = Len(buffer)
    /\ result = StreamOk(2)

-----------------------------------------------------------------------------
(* Add-then-delete *)

\* C40: in any reachable book, a successful AddOrder of a fresh order_id
\* immediately followed by DeleteOrder of that order_id leaves bids, asks
\* and orders exactly equal to the state before the AddOrder, provided the
\* level sum did not exceed 2^32 - 1.
C40_AddThenDeleteRoundTrip ==
    \A m \in AddOrderMsgs(BookU) : \A o \in apply_message(book, m) :
        (/\ o.ret = "Ok"
         /\ LevelOr0(book, Unwrap(Side_from_u8(m.side)), m.price) + m.quantity <= U32_MAX)
        => \A o2 \in apply_message(o.book, [type |-> "DeleteOrder", sequence |-> 0,
                                             order_id |-> m.order_id]) :
              /\ o2.ret = "Ok"
              /\ o2.book = book

====
